---- MODULE Spec2Model ----
(***************************************************************************)
(* Model of examples/hello-rust/hello.rs: a process that reads its raw     *)
(* argument vector through std::env::args(), takes element 1 as the name   *)
(* (defaulting to "World") and prints one greeting with println!.          *)
(*                                                                         *)
(* Text is a sequence of units.  A unit is one character, except           *)
(* InvalidByte, which stands for a byte of an OsString that is not part of *)
(* any valid Unicode encoding (env::args() cannot turn it into a String).  *)
(***************************************************************************)
EXTENDS Integers, Sequences, FiniteSets, TLC

VARIABLES argv, stdoutOk, envVar, pc, name, stdout, stderr, writes, exitCode, earlier

vars == <<argv, stdoutOk, envVar, pc, name, stdout, stderr, writes, exitCode, earlier>>

(* ------------------------------ bounds --------------------------------- *)

\* Longest argument, in units.
MaxLen == 1

\* Most positional arguments after the invocation path.
MaxArgs == 2

(* ------------------------------ values --------------------------------- *)

InvalidByte == "0xFF"

Newline == "\n"

Crab == "U+1F980"

Units == {"A", Newline, InvalidByte}

RECURSIVE SeqsUpTo(_, _)
SeqsUpTo(S, n) ==
  IF n = 0 THEN {<<>>}
  ELSE LET shorter == SeqsUpTo(S, n - 1)
       IN  shorter \cup {Append(s, x) : s \in {t \in shorter : Len(t) = n - 1}, x \in S}

\* The values an OsString argument can take.
OsStrings == SeqsUpTo(Units, MaxLen)

\* The invocation paths (element 0 of the raw vector) the model starts with.
Paths == {<<"A">>, <<InvalidByte>>}

\* Raw argument vectors: empty (argc = 0), or a path followed by arguments.
ArgVectors ==
  {<<>>} \cup {<<p>> \o a : p \in Paths, a \in SeqsUpTo(OsStrings, MaxArgs)}

\* Values of an environment variable; main never reads the environment.
EnvValues == {<<>>, <<"A">>}

None == [tag |-> "None"]

Some(v) == [tag |-> "Some", val |-> v]

Panicked == [tag |-> "Panic"]

(* --------------------------- pure functions ---------------------------- *)

\* OsString::into_string succeeds exactly on valid Unicode.
IsUnicode(os) == \A i \in 1..Len(os) : os[i] # InvalidByte

\* Args::next: the next raw element converted with into_string().unwrap().
ArgsNext(args) ==
  IF args = <<>> THEN None
  ELSE IF IsUnicode(Head(args)) THEN Some(Head(args))
  ELSE Panicked

\* Iterator::nth(n) on env::args(): n calls of next() that are dropped, then
\* one whose result is returned; it stops at the first None and a panic in
\* any of the calls unwinds.
RECURSIVE Nth(_, _)
Nth(args, n) ==
  LET first == ArgsNext(args)
  IN  IF n = 0 THEN first
      ELSE IF first = None THEN None
      ELSE IF first = Panicked THEN Panicked
      ELSE Nth(Tail(args), n - 1)

\* Mutant of DefaultName: the default is taken from the environment when set.
DefaultNameFromEnv == IF envVar # <<>> THEN envVar ELSE <<"W", "o", "r", "l", "d">>

\* "World".to_string()
DefaultName == <<"W", "o", "r", "l", "d">>

\* Option::unwrap_or_else(|| default)
UnwrapOrElse(opt, default) == IF opt = None THEN default ELSE opt.val

\* format_args!("Hello, {}! <crab>\n", name) as println! builds it.
Greeting(n) == <<"H", "e", "l", "l", "o", ",", " ">> \o n \o <<"!", " ", Crab, Newline>>

\* Exit status of a process whose main returned.
SuccessExit == 0

\* Exit status of a Rust process whose main thread panicked.
PanicExit == 101

(* ------------------------------- state --------------------------------- *)

Init ==
  /\ argv \in ArgVectors
  /\ stdoutOk \in BOOLEAN
  /\ envVar \in EnvValues
  /\ pc = "start"
  /\ name = None
  /\ stdout = <<>>
  /\ stderr = <<>>
  /\ writes = 0
  /\ exitCode = None
  /\ earlier = None

\* A panic on the main thread: the message goes to standard error and the
\* process exits with PanicExit.
Panic(msg) ==
  /\ stderr' = Append(stderr, msg)
  /\ exitCode' = Some(PanicExit)
  /\ pc' = "done"

\* let name = env::args().nth(1).unwrap_or_else(|| "World".to_string());
Acquire ==
  /\ pc = "start"
  /\ LET arg == Nth(argv, 1)
     IN  IF arg = Panicked
         THEN /\ Panic("args")
              /\ UNCHANGED name
         ELSE /\ name' = Some(UnwrapOrElse(arg, DefaultName))
              /\ pc' = "acquired"
              /\ UNCHANGED <<stderr, exitCode>>
  /\ UNCHANGED <<argv, stdoutOk, envVar, stdout, writes, earlier>>

\* Mutant of Println: the write's error is dropped (let _ = writeln!(..)).
PrintlnIgnoringError ==
  /\ pc = "acquired"
  /\ writes' = writes + 1
  /\ stdout' = IF stdoutOk THEN stdout \o Greeting(name.val) ELSE stdout
  /\ pc' = "printed"
  /\ UNCHANGED <<argv, stdoutOk, envVar, name, stderr, exitCode, earlier>>

\* Mutant of Println: the greeting is hard-coded and the name is not used.
PrintlnDefault ==
  /\ pc = "acquired"
  /\ writes' = writes + 1
  /\ IF stdoutOk
     THEN /\ stdout' = stdout \o Greeting(DefaultName)
          /\ pc' = "printed"
          /\ UNCHANGED <<stderr, exitCode>>
     ELSE /\ Panic("stdout")
          /\ UNCHANGED stdout
  /\ UNCHANGED <<argv, stdoutOk, envVar, name, earlier>>

\* Mutant of Println: the line is written twice (print! followed by println!).
PrintlnTwice ==
  /\ pc = "acquired"
  /\ writes' = writes + 2
  /\ IF stdoutOk
     THEN /\ stdout' = stdout \o Greeting(name.val) \o Greeting(name.val)
          /\ pc' = "printed"
          /\ UNCHANGED <<stderr, exitCode>>
     ELSE /\ Panic("stdout")
          /\ UNCHANGED stdout
  /\ UNCHANGED <<argv, stdoutOk, envVar, name, earlier>>

\* println!("Hello, {}! <crab>", name): one write of the whole line; a failed
\* write panics ("failed printing to stdout").
Println ==
  /\ pc = "acquired"
  /\ writes' = writes + 1
  /\ IF stdoutOk
     THEN /\ stdout' = stdout \o Greeting(name.val)
          /\ pc' = "printed"
          /\ UNCHANGED <<stderr, exitCode>>
     ELSE /\ Panic("stdout")
          /\ UNCHANGED stdout
  /\ UNCHANGED <<argv, stdoutOk, envVar, name, earlier>>

\* main returns: the process exits with success.
Return ==
  /\ pc = "printed"
  /\ pc' = "done"
  /\ exitCode' = Some(SuccessExit)
  /\ UNCHANGED <<argv, stdoutOk, envVar, name, stdout, stderr, writes, earlier>>

\* The program is invoked a second time with the same arguments; the
\* invocation path, the environment and the state of standard output are
\* the caller's to choose.  The first run's results are kept in earlier.
Rerun ==
  /\ pc = "done"
  /\ earlier = None
  /\ earlier' = Some([argv |-> argv, stdoutOk |-> stdoutOk, envVar |-> envVar,
                      stdout |-> stdout, stderr |-> stderr,
                      exitCode |-> exitCode.val])
  /\ \E p \in Paths :
       argv' = IF argv = <<>> THEN argv ELSE <<p>> \o Tail(argv)
  /\ stdoutOk' \in BOOLEAN
  /\ envVar' \in EnvValues
  /\ pc' = "start"
  /\ name' = None
  /\ stdout' = <<>>
  /\ stderr' = <<>>
  /\ writes' = 0
  /\ exitCode' = None

Next == Acquire \/ Println \/ Return \/ Rerun

Spec == Init /\ [][Next]_vars

TypeOK ==
  /\ argv \in ArgVectors
  /\ stdoutOk \in BOOLEAN
  /\ envVar \in EnvValues
  /\ pc \in {"start", "acquired", "printed", "done"}
  /\ writes \in Nat
  /\ exitCode \in {None, Some(SuccessExit), Some(PanicExit)}

(* ------------------------------ claims --------------------------------- *)

\* The positional arguments: the raw vector without the invocation path.
ArgList == IF argv = <<>> THEN <<>> ELSE Tail(argv)

\* The line the specification gives for the default name.
HelloWorldLine ==
  <<"H", "e", "l", "l", "o", ",", " ", "W", "o", "r", "l", "d", "!", " ", Crab, Newline>>

\* The line the specification gives for an empty name.
HelloEmptyLine == <<"H", "e", "l", "l", "o", ",", " ", "!", " ", Crab, Newline>>

RECURSIVE CountNewlines(_)
CountNewlines(s) ==
  IF s = <<>> THEN 0
  ELSE (IF Head(s) = Newline THEN 1 ELSE 0) + CountNewlines(Tail(s))

\* The elements env::args().nth(1) converts are all valid Unicode.
ConsultedUnicode == \A i \in 1..Len(argv) : i <= 2 => IsUnicode(argv[i])

\* C1: with one or more positional arguments and a writable standard output,
\* a finished run has written exactly "Hello, " + the first argument
\* verbatim + "! " + crab + newline, whatever the later arguments are.
C1_FirstArgumentGreeted ==
  (pc = "done" /\ stdoutOk /\ Len(ArgList) >= 1)
    => stdout = <<"H", "e", "l", "l", "o", ",", " ">> \o ArgList[1]
                  \o <<"!", " ", Crab, Newline>>

\* C1 restricted to raw vectors whose consulted elements are valid Unicode.
C1_UnicodeOnly == ConsultedUnicode => C1_FirstArgumentGreeted

\* C2: with no positional argument and a writable standard output, a
\* finished run has written exactly "Hello, World! " + crab + newline.
C2_DefaultGreeted ==
  (pc = "done" /\ stdoutOk /\ Len(ArgList) = 0) => stdout = HelloWorldLine

\* C2 restricted to raw vectors whose consulted elements are valid Unicode.
C2_UnicodeOnly == ConsultedUnicode => C2_DefaultGreeted

\* C3: an explicitly supplied empty first argument yields "Hello, ! " + crab
\* + newline, which is not the default greeting.
C3_EmptyArgumentNotDefaulted ==
  (pc = "done" /\ stdoutOk /\ Len(ArgList) >= 1 /\ ArgList[1] = <<>>)
    => (stdout = HelloEmptyLine /\ stdout # HelloWorldLine)

\* C3 restricted to raw vectors whose consulted elements are valid Unicode.
C3_UnicodeOnly == ConsultedUnicode => C3_EmptyArgumentNotDefaulted

\* C4: for every argument list, when standard output is writable, the
\* process ends with exit status 0 and its output holds exactly one
\* newline, which is its last character.
C4_OneLineAndSuccess ==
  (pc = "done" /\ stdoutOk)
    => /\ exitCode = Some(SuccessExit)
       /\ CountNewlines(stdout) = 1
       /\ stdout # <<>>
       /\ stdout[Len(stdout)] = Newline

\* C4 without the bound on the number of newlines, restricted to raw
\* vectors whose consulted elements are valid Unicode: the exit status is 0,
\* the output ends with a newline and holds one newline more than the name.
C4_UnicodeOnly ==
  (ConsultedUnicode /\ pc = "done" /\ stdoutOk)
    => /\ exitCode = Some(SuccessExit)
       /\ stdout # <<>>
       /\ stdout[Len(stdout)] = Newline
       /\ CountNewlines(stdout) = 1 + CountNewlines(name.val)

\* C5: there is no invalid input: a finished run has a non-zero exit status
\* only when its write to standard output failed.
C5_NoInvalidInput ==
  (pc = "done" /\ exitCode # Some(SuccessExit)) => (writes = 1 /\ ~stdoutOk)

\* C5 restricted to raw vectors whose consulted elements are valid Unicode.
C5_UnicodeOnly == ConsultedUnicode => C5_NoInvalidInput

\* C6: once a write to standard output has failed the process is finished
\* with a non-zero exit status; the write was attempted once, nothing was
\* written, and the run never reports success.
C6_WriteFailureIsFatal ==
  (writes >= 1 /\ ~stdoutOk)
    => /\ pc = "done"
       /\ exitCode # None
       /\ exitCode # Some(SuccessExit)
       /\ writes = 1
       /\ stdout = <<>>

C6_Witness ==
  /\ pc = "done"
  /\ writes = 1
  /\ ~stdoutOk
  /\ exitCode = Some(PanicExit)
  /\ ConsultedUnicode

\* C7 as stated: two runs started with the same raw argument vector produce
\* the same output and the same exit status, whatever else differs.
C7_Original ==
  (pc = "done" /\ earlier # None /\ argv = earlier.val.argv)
    => /\ stdout = earlier.val.stdout
       /\ exitCode = Some(earlier.val.exitCode)

\* C7 as amended: two runs started with the same raw argument vector, in
\* both of which the write to standard output succeeds or in both of which
\* it fails, produce the same output and the same exit status; the
\* environment variable does not matter.
C7_Deterministic ==
  (pc = "done" /\ earlier # None /\ argv = earlier.val.argv
     /\ stdoutOk = earlier.val.stdoutOk)
    => /\ stdout = earlier.val.stdout
       /\ exitCode = Some(earlier.val.exitCode)

C7_Witness ==
  /\ pc = "done"
  /\ earlier # None
  /\ argv = earlier.val.argv
  /\ stdoutOk
  /\ earlier.val.stdoutOk
  /\ envVar # earlier.val.envVar
  /\ stdout = HelloWorldLine
  /\ earlier.val.stdout = HelloWorldLine

\* In a state after line 4 has bound name (at: pc, w: writes), nm is a
\* present text value, and any output is the greeting of nm.
NameResolved(nm, out, at, w) ==
  /\ (at \in {"acquired", "printed"} \/ (at = "done" /\ w >= 1))
       => (nm # None /\ IsUnicode(nm.val))
  /\ out # <<>> => (nm # None /\ out = Greeting(nm.val))

\* C8: in every state after the default substitution name is a present text
\* value; no step of the process changes it once it is bound; and what has
\* been written is the greeting of that value.
C8_NameFixedAfterAcquisition ==
  [][/\ NameResolved(name, stdout, pc, writes)
     /\ NameResolved(name', stdout', pc', writes')
     /\ (name # None /\ pc # "done") => name' = name]_vars

C8_Witness ==
  /\ pc = "done"
  /\ name = Some(<<>>)
  /\ stdout = HelloEmptyLine
  /\ exitCode = Some(SuccessExit)

\* What C9 says of every step but the one about standard error.
SingleWrite ==
  /\ writes <= 1
  /\ writes' <= 1
  /\ name' = None => stdout' = <<>>
  /\ stdout' # stdout => (pc = "acquired" \/ pc = "done")
  /\ pc = "done" => stdout' = <<>>
  /\ pc # "done" => (argv' = argv /\ envVar' = envVar /\ stdoutOk' = stdoutOk)

\* C9 as stated: at most one write to standard output, none before the name
\* is resolved or after the process has ended, and the argument vector and
\* every other part of the environment, standard error included, unchanged
\* by the process.
C9_Original == [][SingleWrite /\ (pc # "done" => stderr' = stderr)]_vars

\* C9 as amended: the same, except that a run that panics writes one
\* diagnostic to standard error as it ends with the panic exit status.
C9_SingleWrite ==
  [][/\ SingleWrite
     /\ (pc # "done" /\ stderr' # stderr)
          => (pc' = "done" /\ exitCode' = Some(PanicExit) /\ Len(stderr') = 1)]_vars

C9_Witness ==
  /\ pc = "done"
  /\ earlier # None
  /\ writes = 1
  /\ stdout = HelloWorldLine
  /\ stderr = <<>>
  /\ earlier.val.stderr = <<"stdout">>

\* C10: the invocation path never influences the output: two runs that
\* differ only in the invocation path, with standard output in the same
\* condition, write the same output, and a raw vector with nothing after
\* the path is greeted by default.
C10_PathIgnored ==
  (pc = "done" /\ earlier # None /\ stdoutOk = earlier.val.stdoutOk)
    => /\ stdout = earlier.val.stdout
       /\ (stdoutOk /\ Len(argv) <= 1) => stdout = HelloWorldLine

\* C10 restricted to invocation paths that are valid Unicode in both runs.
C10_UnicodeOnly ==
  (earlier # None /\ earlier.val.argv # <<>> /\ IsUnicode(earlier.val.argv[1])
     /\ IsUnicode(argv[1]))
    => C10_PathIgnored

====
